---- MODULE Spec2Model ----
(***************************************************************************)
(* A model of three parts of Coerce-rs:                                    *)
(*   - the actor loop and its built-in Stop / Status messages              *)
(*     (coerce-rt/src/actor/lifecycle.rs),                                 *)
(*   - the remote client's connection state machine and write buffer       *)
(*     (coerce/src/remote/net/client/connect.rs and send.rs),              *)
(*   - the cluster singleton proxy                                         *)
(*     (coerce/src/remote/cluster/singleton/proxy/mod.rs).                 *)
(* Each part has its own specification (LoopSpec, ClientSpec, ProxySpec);  *)
(* the variables of the other parts stay at their initial values.          *)
(***************************************************************************)
EXTENDS Integers, Sequences, FiniteSets, TLC

\* ------------------------------------------------------------------ bounds

\* Messages ever enqueued on the actor's mailbox.
MaxMsgs == 4

\* Requests ever sent through the singleton proxy.
MaxRequests == 4

\* Distinct references a SingletonStarted can carry.
MaxRefs == 2

\* Write messages ever handled by the remote client.
MaxWrites == 3

\* Longest payload, in bytes.
MaxLen == 2

\* Transport faults over a run: failed dials, missing identities, sink errors
\* and connections reported closed by a receive loop.
MaxFaults == 2

\* Messages the callers of the client send in all: accepted payloads,
\* BeginHandshake messages and on_identified registrations.
MaxInputs == 3

VARIABLES
    \* ---- actor loop (lifecycle.rs)
    pc,            \* position of actor_loop
    status,        \* ctx.status
    rx,            \* the mailbox: indexes into sent, oldest first
    sent,          \* every message enqueued so far, in enqueue order
    refs,          \* TRUE while some LocalActorRef (a mailbox sender) is alive
    cur,           \* index of the message whose handler is running, 0 if none
    log,           \* <<"start", i>> and <<"end", i>> events of the handlers
    startedCalls,  \* calls of actor.started
    stoppedCalls,  \* calls of actor.stopped
    startedEff,    \* what the started hook did to the status ("unset" before it ran)
    wild,          \* a hook or a user handler set a status other than Stopping
    \* ---- singleton proxy (proxy/mod.rs)
    proxy_state,   \* Proxy.state: Buffered{request_queue} or Active{actor_ref}
    delivered,     \* every [ref, msg] handed to an actor reference, in order
    nextReq,       \* requests sent to the proxy so far; request ids are 1..nextReq
    queuedEver,    \* the requests that were appended to a request_queue
    epQueued,      \* requests queued for the current episode, in arrival order
    epActive,      \* requests sent while Active in the current episode
    epOut,         \* requests handed to a reference in the current episode
    proxy_last,    \* the proxy handler that ran last
    \* ---- remote client (connect.rs, send.rs)
    state,         \* RemoteClient.state: Idle, Quarantined or Connected
    write_buffer,  \* RemoteClient.write_buffer: payloads, oldest first
    write_buffer_bytes_total,
    pendingConnects, \* Connect messages on their way: sent, or sleeping in a
                   \* reconnect task
    loops,         \* receive loops that may still report their connection closed
    peer,          \* the payloads the peer has received, in order
    accepted,      \* the payloads for which Write returned Ok, in order
    faults,        \* transport faults so far
    sinkErr,       \* the last payload whose send in Write hit a sink error, and
                   \* the first payload the peer received after that
    last,          \* the client handler that ran last, and its outcome
    on_identified_callbacks,    \* RemoteClient.on_identified_callbacks (a Vec)
    identified,    \* what each on_identified callback was sent, in order
    on_handshake_ack_callbacks, \* RemoteClient.on_handshake_ack_callbacks
    fulfilled,     \* the on_handshake_complete slots that were sent (), in order
    handshakes,    \* BeginHandshake messages handled so far
    hsFrames,      \* Handshake frames the sink took
    acks,          \* HandshakeAcknowledge messages handled so far
    unacked,       \* Handshake frames written on the connection published
                   \* last whose acknowledgement the peer has yet to send
    conn,          \* connections published so far: the number of the current one
    streak,        \* failed Connects handled since creation while nothing else
                   \* touched the state, -1 once something else did
    panicked       \* a handler panicked: the client actor is gone

loopVars == <<pc, status, rx, sent, refs, cur, log, startedCalls, stoppedCalls,
              startedEff, wild>>

proxyVars == <<proxy_state, delivered, nextReq, queuedEver, epQueued, epActive,
               epOut, proxy_last>>

\* The callbacks of the client and what became of them.
cbVars == <<on_identified_callbacks, identified, on_handshake_ack_callbacks,
            fulfilled, handshakes, hsFrames, acks, unacked>>

clientVars == <<state, write_buffer, write_buffer_bytes_total, pendingConnects,
                loops, peer, accepted, faults, sinkErr, last, cbVars, conn,
                streak, panicked>>

vars == <<loopVars, proxyVars, clientVars>>

\* ------------------------------------------------------------ actor loop

Statuses == {"Starting", "Started", "Stopping", "Stopped"}

\* What a hook or a user handler does with ctx: nothing, ctx.set_status(Stopping)
\* (the request the loop looks for), or ctx.set_status(Stopped), which stands
\* for the statuses the loop does not look for.
HookEffects == {"none", "Stopping", "Stopped"}

\* The envelopes a sender can enqueue: the built-in Stop and Status, and a
\* user message whose handler has one of the effects above.
Messages ==
    [kind : {"Stop", "Status"}, eff : {"none"}]
        \cup [kind : {"User"}, eff : HookEffects]

set_status(old, eff) == IF eff = "none" THEN old ELSE eff

\* Handler<Stop> sets Stopping, Handler<Status> only reads the status, a user
\* handler does what it does.
HandlerEffect(m) ==
    CASE m.kind = "Stop" -> "Stopping"
      [] m.kind = "Status" -> "none"
      [] OTHER -> m.eff

IsWild(eff) == eff \notin {"none", "Stopping"}

LoopInit ==
    /\ pc = "start"
    /\ status = "Starting"
    /\ rx = <<>>
    /\ sent = <<>>
    /\ refs = TRUE
    /\ cur = 0
    /\ log = <<>>
    /\ startedCalls = 0
    /\ stoppedCalls = 0
    /\ startedEff = "unset"
    /\ wild = FALSE

\* A sender enqueues m. The send succeeds while the receiver exists, that is
\* until actor_loop returns.
Send(m) ==
    /\ refs
    /\ pc \notin {"done", "aborted"}
    /\ Len(sent) < MaxMsgs
    /\ sent' = Append(sent, m)
    /\ rx' = Append(rx, Len(sent) + 1)
    /\ UNCHANGED <<pc, status, refs, cur, log, startedCalls, stoppedCalls,
                   startedEff, wild>>

\* The last reference is dropped: the mailbox is closed once it is drained.
DropRefs ==
    /\ refs
    /\ refs' = FALSE
    /\ UNCHANGED <<pc, status, rx, sent, cur, log, startedCalls, stoppedCalls,
                   startedEff, wild>>

\* actor.started(&mut ctx).await
StartedHook(eff) ==
    /\ pc = "start"
    /\ startedCalls' = startedCalls + 1
    /\ status' = set_status(status, eff)
    /\ startedEff' = eff
    /\ wild' = (wild \/ IsWild(eff))
    /\ pc' = "started_ret"
    /\ UNCHANGED <<rx, sent, refs, cur, log, stoppedCalls>>

\* A loop that does not look at the status the started hook left.
CheckStartedNoAbort ==
    /\ pc = "started_ret"
    /\ status' = "Started"
    /\ pc' = "recv"
    /\ UNCHANGED <<rx, sent, refs, cur, log, startedCalls, stoppedCalls,
                   startedEff, wild>>

\* match ctx.get_status() { Stopping => return, _ => {} }; ctx.set_status(Started)
CheckStarted ==
    /\ pc = "started_ret"
    /\ IF status = "Stopping"
       THEN /\ pc' = "aborted"
            /\ status' = status
       ELSE /\ pc' = "recv"
            /\ status' = "Started"
    /\ UNCHANGED <<rx, sent, refs, cur, log, startedCalls, stoppedCalls,
                   startedEff, wild>>

\* A mailbox that hands out its newest envelope first.
RecvNewestFirst ==
    /\ pc = "recv"
    /\ IF rx # <<>>
       THEN /\ cur' = rx[Len(rx)]
            /\ rx' = SubSeq(rx, 1, Len(rx) - 1)
            /\ log' = Append(log, <<"start", rx[Len(rx)]>>)
            /\ pc' = "handle"
       ELSE /\ ~refs
            /\ pc' = "exit"
            /\ UNCHANGED <<cur, rx, log>>
    /\ UNCHANGED <<status, sent, refs, startedCalls, stoppedCalls, startedEff, wild>>

\* A mailbox that reports itself closed as soon as every sender is gone,
\* whatever it still holds.
RecvClosedFirst ==
    /\ pc = "recv"
    /\ IF refs /\ rx # <<>>
       THEN /\ cur' = Head(rx)
            /\ rx' = Tail(rx)
            /\ log' = Append(log, <<"start", Head(rx)>>)
            /\ pc' = "handle"
       ELSE /\ ~refs
            /\ pc' = "exit"
            /\ UNCHANGED <<cur, rx, log>>
    /\ UNCHANGED <<status, sent, refs, startedCalls, stoppedCalls, startedEff, wild>>

\* while let Some(msg) = rx.recv().await: the oldest envelope, or None once
\* the mailbox is empty and every sender is gone; then msg.handle starts.
Recv ==
    /\ pc = "recv"
    /\ IF rx # <<>>
       THEN /\ cur' = Head(rx)
            /\ rx' = Tail(rx)
            /\ log' = Append(log, <<"start", Head(rx)>>)
            /\ pc' = "handle"
       ELSE /\ ~refs
            /\ pc' = "exit"
            /\ UNCHANGED <<cur, rx, log>>
    /\ UNCHANGED <<status, sent, refs, startedCalls, stoppedCalls, startedEff, wild>>

\* A loop that goes on after a handler left the status Stopping.
HandleReturnNoBreak ==
    /\ pc = "handle"
    /\ status' = set_status(status, HandlerEffect(sent[cur]))
    /\ wild' = (wild \/ IsWild(HandlerEffect(sent[cur])))
    /\ log' = Append(log, <<"end", cur>>)
    /\ cur' = 0
    /\ pc' = "recv"
    /\ UNCHANGED <<rx, sent, refs, startedCalls, stoppedCalls, startedEff>>

\* msg.handle(&mut actor, &mut ctx) returns; match ctx.get_status()
\* { Stopping => break, _ => {} }
HandleReturn ==
    /\ pc = "handle"
    /\ status' = set_status(status, HandlerEffect(sent[cur]))
    /\ wild' = (wild \/ IsWild(HandlerEffect(sent[cur])))
    /\ log' = Append(log, <<"end", cur>>)
    /\ cur' = 0
    /\ pc' = IF status' = "Stopping" THEN "exit" ELSE "recv"
    /\ UNCHANGED <<rx, sent, refs, startedCalls, stoppedCalls, startedEff>>

\* ctx.set_status(Stopping) after the loop
Exit ==
    /\ pc = "exit"
    /\ status' = "Stopping"
    /\ pc' = "stopping"
    /\ UNCHANGED <<rx, sent, refs, cur, log, startedCalls, stoppedCalls,
                   startedEff, wild>>

\* actor.stopped(&mut ctx).await
StoppedHook(eff) ==
    /\ pc = "stopping"
    /\ stoppedCalls' = stoppedCalls + 1
    /\ status' = set_status(status, eff)
    /\ wild' = (wild \/ IsWild(eff))
    /\ pc' = "stopped_ret"
    /\ UNCHANGED <<rx, sent, refs, cur, log, startedCalls, startedEff>>

\* A loop that ends with the status Started.
FinishAsStarted ==
    /\ pc = "stopped_ret"
    /\ status' = "Started"
    /\ pc' = "done"
    /\ UNCHANGED <<rx, sent, refs, cur, log, startedCalls, stoppedCalls,
                   startedEff, wild>>

\* ctx.set_status(Stopped); actor_loop returns
Finish ==
    /\ pc = "stopped_ret"
    /\ status' = "Stopped"
    /\ pc' = "done"
    /\ UNCHANGED <<rx, sent, refs, cur, log, startedCalls, stoppedCalls,
                   startedEff, wild>>

\* The other parts of the model do nothing during a step of the loop.
LoopOnly == UNCHANGED <<proxyVars, clientVars>>

LoopNext ==
    \/ (\E m \in Messages : Send(m)) /\ LoopOnly
    \/ DropRefs /\ LoopOnly
    \/ (\E eff \in HookEffects : StartedHook(eff)) /\ LoopOnly
    \/ CheckStarted /\ LoopOnly
    \/ Recv /\ LoopOnly
    \/ HandleReturn /\ LoopOnly
    \/ Exit /\ LoopOnly
    \/ (\E eff \in HookEffects : StoppedHook(eff)) /\ LoopOnly
    \/ Finish /\ LoopOnly

\* ---- properties of the actor loop

Begun(i) == \E k \in 1..Len(log) : log[k] = <<"start", i>>

Ended(i) == \E k \in 1..Len(log) : log[k] = <<"end", i>>

IsStop(i) == sent[i].kind = "Stop"

Terminated == pc \in {"done", "aborted"}

\* C1: handlers of one actor run strictly in enqueue order and never overlap:
\* when the handler of message j starts, the handler of every message
\* enqueued before j has started and returned, and every return directly
\* follows the start of the same handler.
C1_FifoNoOverlap ==
    \A b \in 1..Len(log) :
        /\ log[b][1] = "start" =>
              /\ b = 1 \/ log[b - 1][1] = "end"
              /\ \A i \in 1..(log[b][2] - 1) :
                    \E a \in 1..(b - 1) : \E e \in (a + 1)..(b - 1) :
                        log[a] = <<"start", i>> /\ log[e] = <<"end", i>>
        /\ log[b][1] = "end" => b > 1 /\ log[b - 1] = <<"start", log[b][2]>>

\* Two messages were enqueued together and both handlers have run.
C1_Witness ==
    /\ Len(log) >= 4
    /\ log[4] = <<"end", 2>>
    /\ Len(sent) >= 3

\* C2 as stated: nothing enqueued after a Stop is ever processed, and, once
\* a loop whose started hook let it run has ended, everything enqueued before
\* any Stop has been handled.
C2_Original ==
    /\ \A i, j \in 1..Len(sent) : IsStop(i) /\ i < j => ~Begun(j)
    /\ pc = "done" =>
          \A i, j \in 1..Len(sent) : IsStop(i) /\ j < i => Ended(j)

\* C2 amended: nothing enqueued after a Stop is ever processed; a Stop is
\* handled only after everything enqueued before it; and once the loop has
\* ended, a Stop and everything enqueued before it have been handled, provided
\* neither the started hook nor an earlier message (an earlier Stop, or a
\* handler that set Stopping) stopped the loop first.
C2_Amended ==
    /\ \A i, j \in 1..Len(sent) : IsStop(i) /\ i < j => ~Begun(j)
    /\ \A i, j \in 1..Len(sent) : IsStop(i) /\ Begun(i) /\ j < i => Ended(j)
    /\ Terminated /\ startedEff # "Stopping" =>
          \A i \in 1..Len(sent) :
              (IsStop(i) /\ \A k \in 1..(i - 1) : HandlerEffect(sent[k]) # "Stopping")
                  => \A j \in 1..i : Ended(j)

\* A, B, Stop, C: A, B and Stop were handled, C never was, and stopped ran.
C2_Witness ==
    /\ pc = "done"
    /\ stoppedCalls = 1
    /\ Len(sent) = 4
    /\ IsStop(3) /\ ~IsStop(1) /\ ~IsStop(2)
    /\ Ended(1) /\ Ended(2) /\ Ended(3)
    /\ ~Begun(4)

\* C3: started is called exactly once, stopped at most once and only after
\* started returned; when started set Stopping, stopped is never called and
\* no message is handled.
C3_Hooks ==
    /\ startedCalls <= 1
    /\ pc # "start" => startedCalls = 1
    /\ stoppedCalls <= 1
    /\ stoppedCalls = 1 => startedCalls = 1 /\ startedEff # "unset"
    /\ startedEff = "Stopping" => stoppedCalls = 0 /\ log = <<>>

\* started set Stopping while messages were waiting; the loop has returned.
C3_Witness ==
    /\ startedEff = "Stopping"
    /\ pc = "aborted"
    /\ rx # <<>>
    /\ ~refs

DagEdges ==
    { <<"Starting", "Started">>, <<"Starting", "Stopping">>,
      <<"Started", "Stopping">>, <<"Stopping", "Stopped">> }

DagStep == status' = status \/ <<status, status'>> \in DagEdges

\* C4 as stated: every change of the status is an edge of
\* Starting -> (Started | Stopping) -> Stopping -> Stopped.
C4_Original == [][DagStep]_vars

\* C4 amended: as long as the hooks and the user handlers set the status to
\* no value other than Stopping, every change of the status is an edge of the
\* DAG (so Stopped, which has no outgoing edge, is never left).
C4_Amended == [][~wild' => DagStep]_vars

\* A user handler set Stopping, the loop went through stopped and ended
\* Stopped, and nobody set another status.
C4_Witness ==
    /\ pc = "done"
    /\ status = "Stopped"
    /\ ~wild
    /\ \E i \in 1..Len(sent) :
          sent[i].kind = "User" /\ sent[i].eff = "Stopping" /\ Ended(i)

\* ------------------------------------------------------- singleton proxy

Refs == 1..MaxRefs

\* Proxy::new(): Buffered with an empty request_queue.
ProxyInit ==
    /\ proxy_state = [kind |-> "Buffered", request_queue |-> <<>>]
    /\ delivered = <<>>
    /\ nextReq = 0
    /\ queuedEver = {}
    /\ epQueued = <<>>
    /\ epActive = <<>>
    /\ epOut = <<>>
    /\ proxy_last = "new"

\* A sender's request reaches the proxy: queued while Buffered, routed to
\* actor_ref while Active.
ProxySend ==
    /\ nextReq < MaxRequests
    /\ nextReq' = nextReq + 1
    /\ proxy_last' = "Send"
    /\ IF proxy_state.kind = "Buffered"
       THEN /\ proxy_state' =
                  [proxy_state EXCEPT !.request_queue = Append(@, nextReq + 1)]
            /\ queuedEver' = queuedEver \cup {nextReq + 1}
            /\ epQueued' = Append(epQueued, nextReq + 1)
            /\ UNCHANGED <<delivered, epActive, epOut>>
       ELSE /\ delivered' =
                  Append(delivered, [ref |-> proxy_state.actor_ref, msg |-> nextReq + 1])
            /\ epActive' = Append(epActive, nextReq + 1)
            /\ epOut' = Append(epOut, nextReq + 1)
            /\ UNCHANGED <<proxy_state, queuedEver, epQueued>>

\* A drain that takes the newest request first.
RECURSIVE DrainNewestFirst(_)
DrainNewestFirst(q) ==
    IF q = <<>> THEN <<>>
    ELSE <<q[Len(q)]>> \o DrainNewestFirst(SubSeq(q, 1, Len(q) - 1))

\* while let Some(buffered) = request_queue.pop_front() { buffered.send(..) }:
\* the requests in the order they are sent.
RECURSIVE Drain(_)
Drain(q) ==
    IF q = <<>> THEN <<>> ELSE <<Head(q)>> \o Drain(Tail(q))

ToRef(ref, msgs) == [i \in 1..Len(msgs) |-> [ref |-> ref, msg |-> msgs[i]]]

\* A handler that keeps the reference it has when it is already Active.
SingletonStartedKeepsRef(ref) ==
    /\ proxy_last' = "Started"
    /\ IF proxy_state.kind = "Buffered"
       THEN /\ delivered' = delivered \o ToRef(ref, Drain(proxy_state.request_queue))
            /\ epOut' = epOut \o Drain(proxy_state.request_queue)
            /\ proxy_state' = [kind |-> "Active", actor_ref |-> ref]
       ELSE UNCHANGED <<delivered, epOut, proxy_state>>
    /\ UNCHANGED <<nextReq, queuedEver, epQueued, epActive>>

\* Handler<SingletonStarted<A>>::handle
SingletonStarted(ref) ==
    /\ proxy_last' = "Started"
    /\ IF proxy_state.kind = "Buffered"
       THEN /\ delivered' = delivered \o ToRef(ref, Drain(proxy_state.request_queue))
            /\ epOut' = epOut \o Drain(proxy_state.request_queue)
       ELSE UNCHANGED <<delivered, epOut>>
    /\ proxy_state' = [kind |-> "Active", actor_ref |-> ref]
    /\ UNCHANGED <<nextReq, queuedEver, epQueued, epActive>>

\* A handler that starts a fresh queue in either state.
SingletonStoppingAlways ==
    /\ proxy_last' = "Stopping"
    /\ proxy_state' = [kind |-> "Buffered", request_queue |-> <<>>]
    /\ epQueued' = <<>>
    /\ epActive' = <<>>
    /\ epOut' = <<>>
    /\ UNCHANGED <<delivered, nextReq, queuedEver>>

\* Handler<SingletonStopping>::handle
SingletonStopping ==
    /\ proxy_last' = "Stopping"
    /\ IF proxy_state.kind = "Active"
       THEN /\ proxy_state' = [kind |-> "Buffered", request_queue |-> <<>>]
            /\ epQueued' = <<>>
            /\ epActive' = <<>>
            /\ epOut' = <<>>
       ELSE UNCHANGED <<proxy_state, epQueued, epActive, epOut>>
    /\ UNCHANGED <<delivered, nextReq, queuedEver>>

ProxyOnly == UNCHANGED <<loopVars, clientVars>>

ProxyNext ==
    \/ ProxySend /\ ProxyOnly
    \/ (\E ref \in Refs : SingletonStarted(ref)) /\ ProxyOnly
    \/ SingletonStopping /\ ProxyOnly

\* ---- properties of the singleton proxy

InQueue(m) ==
    /\ proxy_state.kind = "Buffered"
    /\ \E i \in 1..Len(proxy_state.request_queue) : proxy_state.request_queue[i] = m

TimesDelivered(m) == Cardinality({i \in 1..Len(delivered) : delivered[i].msg = m})

\* C8: while the proxy is Active, what it has handed to the singleton in this
\* episode is exactly the requests queued while Buffered, in arrival order,
\* followed by the requests sent while Active.
C8_EpisodeOrder ==
    proxy_state.kind = "Active" => epOut = epQueued \o epActive

\* m1, m2, m3 while Buffered, SingletonStarted, then m4.
C8_Witness ==
    /\ proxy_state.kind = "Active"
    /\ epQueued = <<1, 2, 3>>
    /\ epActive = <<4>>
    /\ epOut = <<1, 2, 3, 4>>

NoneDropped ==
    \A m \in queuedEver :
        \/ InQueue(m) /\ TimesDelivered(m) = 0
        \/ ~InQueue(m) /\ TimesDelivered(m) = 1

\* C9: a request that was appended to the queue is either still in the queue
\* and not yet sent, or out of the queue and sent to a reference exactly once;
\* SingletonStopping handled while Buffered leaves the state, queue included,
\* as it was; and the step from Buffered to Active sends the whole queue.
C9_NeverDropped ==
    /\ []NoneDropped
    /\ [][(proxy_last' = "Stopping" /\ proxy_state.kind = "Buffered")
              => proxy_state' = proxy_state]_vars
    /\ [][(proxy_state.kind = "Buffered" /\ proxy_state'.kind = "Active")
              => Len(delivered') = Len(delivered) + Len(proxy_state.request_queue)]_vars

\* SingletonStopping arrived while Buffered with requests waiting, after an
\* earlier episode had drained others.
C9_Witness ==
    /\ proxy_last = "Stopping"
    /\ proxy_state.kind = "Buffered"
    /\ proxy_state.request_queue # <<>>
    /\ \E m \in queuedEver : TimesDelivered(m) = 1

\* C20: the proxy starts Buffered with an empty queue; SingletonStarted{ref}
\* ends in Active{ref} from either state, and from Active it forwards
\* nothing; SingletonStopping ends in Buffered with an empty queue from
\* Active and changes nothing from Buffered; a request sent while Buffered is
\* queued; and the proxy changes between Buffered and Active in no other way.
C20_Transitions ==
    /\ [](proxy_last = "new" =>
            proxy_state = [kind |-> "Buffered", request_queue |-> <<>>])
    /\ [][/\ \A r \in Refs :
               SingletonStarted(r) =>
                 /\ proxy_state' = [kind |-> "Active", actor_ref |-> r]
                 /\ proxy_state.kind = "Active" => delivered' = delivered
          /\ (proxy_last' = "Stopping" /\ proxyVars' # proxyVars) =>
                 IF proxy_state.kind = "Active"
                 THEN proxy_state' = [kind |-> "Buffered", request_queue |-> <<>>]
                 ELSE proxy_state' = proxy_state
          /\ (proxy_last' = "Send" /\ proxy_state.kind = "Buffered") =>
                 /\ proxy_state'.kind = "Buffered"
                 /\ proxy_state'.request_queue =
                       Append(proxy_state.request_queue, nextReq')
                 /\ delivered' = delivered
          /\ proxy_state'.kind # proxy_state.kind =>
                 proxy_last' = (IF proxy_state.kind = "Buffered"
                                THEN "Started" ELSE "Stopping")]_vars

\* A SingletonStarted replaced the reference of an Active proxy that had
\* drained its queue and routed a later request to the earlier reference.
C20_Witness ==
    /\ proxy_last = "Started"
    /\ proxy_state = [kind |-> "Active", actor_ref |-> 2]
    /\ epQueued # <<>> /\ epActive # <<>>
    /\ delivered[Len(delivered)] = [ref |-> 1, msg |-> epActive[Len(epActive)]]
    /\ \E i \in 1..Len(delivered) : delivered[i].msg \notin queuedEver

\* ---- the loop once every reference is dropped

\* The steps of actor_loop itself, as opposed to those of its senders.
LoopStep ==
    \/ \E eff \in HookEffects : StartedHook(eff)
    \/ CheckStarted
    \/ Recv
    \/ HandleReturn
    \/ Exit
    \/ \E eff \in HookEffects : StoppedHook(eff)
    \/ Finish

NoStopSent == \A i \in 1..Len(sent) : ~IsStop(i)

\* Nothing asked the loop to stop: no Stop was sent, and neither the started
\* hook nor a handler set the status to Stopping.
NoStopRequested ==
    /\ startedEff # "Stopping"
    /\ \A i \in 1..Len(sent) : HandlerEffect(sent[i]) # "Stopping"

AllHandled == \A i \in 1..Len(sent) : Ended(i)

\* C18 as stated: with every reference dropped and no Stop sent, stopped is
\* called only after every enqueued message was handled, and the loop ends
\* with stopped called once and the status Stopped.
C18_Original ==
    /\ (~refs /\ NoStopSent /\ stoppedCalls > 0) => AllHandled
    /\ (~refs /\ NoStopSent /\ pc = "done") =>
           stoppedCalls = 1 /\ status = "Stopped"

\* C18 amended: with every reference dropped and nothing having asked the
\* loop to stop (no Stop sent, Stopping set neither by the started hook nor
\* by a handler), stopped is called only after every enqueued message was
\* handled, the loop does not return early, it ends with stopped called once
\* and the status Stopped, and it does end.
C18_Amended ==
    /\ []((~refs /\ NoStopRequested /\ stoppedCalls > 0) => AllHandled)
    /\ []((~refs /\ NoStopRequested /\ pc = "done") =>
             stoppedCalls = 1 /\ status = "Stopped")
    /\ []((~refs /\ NoStopRequested) => pc # "aborted")
    /\ (~refs /\ NoStopRequested) ~> (pc = "done" \/ startedEff = "Stopping")

\* Three messages were enqueued, the references dropped, and the loop ended
\* after handling all three.
C18_Witness ==
    /\ ~refs /\ NoStopRequested
    /\ pc = "done"
    /\ Len(sent) = 3
    /\ AllHandled
    /\ stoppedCalls = 1
    /\ status = "Stopped"

\* --------------------------------------------------------- remote client

Payloads == [id : 1..MaxWrites, len : 1..MaxLen]

Idle(n) == [kind |-> "Idle", connection_attempts |-> n]

Quarantined(since, n) ==
    [kind |-> "Quarantined", since |-> since, connection_attempts |-> n]

\* HandshakeStatus
None == [status |-> "None"]

Acknowledged(ack) == [status |-> "Acknowledged", ack |-> ack]

\* ClientState::Connected of the ConnectionState that connect() returns.
Connected == [kind |-> "Connected", handshake |-> None]

\* The client as it is created: Idle with no attempt made, nothing buffered,
\* and the first Connect on its way.
ClientInit ==
    /\ state = Idle(0)
    /\ write_buffer = <<>>
    /\ write_buffer_bytes_total = 0
    /\ pendingConnects = 1
    /\ loops = 0
    /\ peer = <<>>
    /\ accepted = <<>>
    /\ faults = 0
    /\ sinkErr = [p |-> 0, first |-> 0]
    /\ last = [op |-> "new", res |-> "none"]
    /\ on_identified_callbacks = <<>>
    /\ identified = <<>>
    /\ on_handshake_ack_callbacks = <<>>
    /\ fulfilled = <<>>
    /\ handshakes = 0
    /\ hsFrames = 0
    /\ acks = 0
    /\ unacked = 0
    /\ conn = 0
    /\ streak = 0
    /\ panicked = FALSE

\* The states a handler can find the client in: every variant of ClientState,
\* with a handshake acknowledged or not.
ClientStates ==
    {Idle(1), Quarantined(1, 1), Connected,
     [Connected EXCEPT !.handshake = Acknowledged(0)]}

\* A client some way into its life, in any of its states: it may hold one
\* buffered payload, the callback of one BeginHandshake is queued, and
\* receive loops of its connections are still running.
AnyClientInit ==
    /\ state \in ClientStates
    /\ write_buffer \in {<<>>, <<[id |-> 1, len |-> 1]>>}
    /\ write_buffer_bytes_total =
          (IF write_buffer = <<>> THEN 0 ELSE write_buffer[1].len)
    /\ accepted = [i \in 1..Len(write_buffer) |-> write_buffer[i].id]
    /\ pendingConnects = (IF state.kind = "Connected" THEN 0 ELSE 1)
    /\ loops = 2
    /\ peer = <<>>
    /\ faults = 0
    /\ sinkErr = [p |-> 0, first |-> 0]
    /\ last = [op |-> "new", res |-> "none"]
    /\ on_identified_callbacks = <<>>
    /\ identified = <<>>
    /\ on_handshake_ack_callbacks = <<[c |-> 1, conn |-> 1]>>
    /\ fulfilled = <<>>
    /\ handshakes = 1
    /\ hsFrames = 1
    /\ acks = 0
    /\ unacked = 1
    /\ conn = 1
    /\ streak = -1
    /\ panicked = FALSE

\* What the callers of the client have sent so far.
Inputs ==
    Len(accepted) + handshakes + Len(identified) + Len(on_identified_callbacks)

\* A match that sends Quarantined back to Idle.
DisconnectedStateLeavesQuarantine(s) ==
    IF s.kind = "Connected" THEN Idle(1) ELSE Idle(s.connection_attempts + 1)

\* The match of Handler<Disconnected>::handle: the state it leaves.
DisconnectedState(s) ==
    CASE s.kind = "Idle" -> [s EXCEPT !.connection_attempts = @ + 1]
      [] s.kind = "Quarantined" -> [s EXCEPT !.connection_attempts = @ + 1]
      [] OTHER -> Idle(1)

\* A flush that leaves the counter alone when an entry was written.
BytesAfterWrittenKept(total, len) == total

\* self.write_buffer_bytes_total -= len
BytesAfterWritten(total, len) == total - len

\* A buffer_message that puts the bytes in front of the buffered ones.
buffer_message_front(buf, total, p) ==
    [write_buffer |-> <<p>> \o buf, write_buffer_bytes_total |-> total + p.len]

\* RemoteClient::buffer_message
buffer_message(buf, total, p) ==
    [write_buffer |-> Append(buf, p), write_buffer_bytes_total |-> total + p.len]

\* A flush that puts the entry it failed on behind the others.
RECURSIVE FlushLoopPushBack(_, _, _, _)
FlushLoopPushBack(buf, total, oks, out) ==
    IF buf = <<>>
    THEN [write_buffer |-> buf, write_buffer_bytes_total |-> total, out |-> out]
    ELSE IF oks > 0
         THEN FlushLoopPushBack(Tail(buf), BytesAfterWritten(total, Head(buf).len),
                                oks - 1, Append(out, Head(buf)))
         ELSE [write_buffer |-> Tail(buf) \o <<Head(buf)>>,
               write_buffer_bytes_total |-> total, out |-> out]

\* The loop of flush_buffered_writes when the sink takes the first oks
\* entries and fails on the next: pop_front, write, and on failure push_front
\* and break. out collects what was written.
RECURSIVE FlushLoop(_, _, _, _)
FlushLoop(buf, total, oks, out) ==
    IF buf = <<>>
    THEN [write_buffer |-> buf, write_buffer_bytes_total |-> total, out |-> out]
    ELSE IF oks > 0
         THEN FlushLoop(Tail(buf), BytesAfterWritten(total, Head(buf).len),
                        oks - 1, Append(out, Head(buf)))
         ELSE [write_buffer |-> <<Head(buf)>> \o Tail(buf),
               write_buffer_bytes_total |-> total, out |-> out]

\* RemoteClient::flush_buffered_writes: nothing unless Connected.
flush_buffered_writes(s, buf, total, oks) ==
    IF s.kind = "Connected"
    THEN FlushLoop(buf, total, oks, <<>>)
    ELSE [write_buffer |-> buf, write_buffer_bytes_total |-> total, out |-> <<>>]

Ids(ps) == [i \in 1..Len(ps) |-> ps[i].id]

\* The peer receives ps; the first of them is noted when a sink error is
\* waiting for its retransmission.
Receive(ps) ==
    /\ peer' = peer \o Ids(ps)
    /\ sinkErr' = IF sinkErr.p # 0 /\ sinkErr.first = 0 /\ ps # <<>>
                  THEN [sinkErr EXCEPT !.first = ps[1].id]
                  ELSE sinkErr

\* A serialization that always gives bytes.
write_to_bytes_always(p, enc) == <<p>>

\* message.write_to_bytes(): the bytes of the payload, or nothing (an Option,
\* as a sequence of at most one element).
write_to_bytes(p, enc) == IF enc THEN <<p>> ELSE <<>>

\* Handler<Write<M>>::handle, that is RemoteClient::write, of the payload p.
\* enc: the message can be serialized. sinkOk: the sink took the bytes.
\* last.bytes notes enc.
HandleWrite(p, enc, sinkOk) ==
    /\ p.id = Len(accepted) + 1
    /\ Inputs < MaxInputs
    /\ UNCHANGED <<cbVars, conn, panicked>>
    /\ streak' = IF write_to_bytes(p, enc) # <<>> /\ state.kind = "Connected"
                     /\ ~sinkOk
                  THEN -1 ELSE streak
    /\ IF write_to_bytes(p, enc) = <<>>
       THEN /\ last' = [op |-> "Write", res |-> "Encoding", bytes |-> enc]
            /\ UNCHANGED <<state, write_buffer, write_buffer_bytes_total,
                           pendingConnects, loops, peer, accepted, faults, sinkErr>>
       ELSE /\ accepted' = Append(accepted, p.id)
            /\ IF state.kind # "Connected"
               THEN /\ write_buffer' = buffer_message(write_buffer,
                                          write_buffer_bytes_total, p).write_buffer
                    /\ write_buffer_bytes_total' =
                          buffer_message(write_buffer, write_buffer_bytes_total,
                                         p).write_buffer_bytes_total
                    /\ last' = [op |-> "Write", res |-> "buffered", bytes |-> enc]
                    /\ UNCHANGED <<state, pendingConnects, loops, peer, faults,
                                   sinkErr>>
               ELSE IF sinkOk
                    THEN /\ Receive(<<p>>)
                         /\ last' = [op |-> "Write", res |-> "sent", bytes |-> enc]
                         /\ UNCHANGED <<state, write_buffer,
                                        write_buffer_bytes_total, pendingConnects,
                                        loops, faults>>
                    ELSE /\ faults < MaxFaults
                         /\ faults' = faults + 1
                         /\ write_buffer' = buffer_message(write_buffer,
                                               write_buffer_bytes_total, p).write_buffer
                         /\ write_buffer_bytes_total' =
                               buffer_message(write_buffer, write_buffer_bytes_total,
                                              p).write_buffer_bytes_total
                         \* self.handle(Disconnected, ctx).await
                         /\ state' = DisconnectedState(state)
                         /\ pendingConnects' = pendingConnects + 1
                         /\ sinkErr' = [p |-> p.id, first |-> 0]
                         /\ last' = [op |-> "Write", res |-> "sink_error", bytes |-> enc]
                         /\ UNCHANGED <<loops, peer>>

\* The order in which `while let Some(callback) = v.pop()` visits a Vec.
PopAll(v) == [i \in 1..Len(v) |-> v[Len(v) + 1 - i]]

\* Callbacks that are dropped without anything being sent to them.
ResolveIdentifiedDropped(cbs, identity) == <<>>

\* while let Some(callback) = self.on_identified_callbacks.pop()
\*     { callback.send(identity) }
ResolveIdentified(cbs, identity) ==
    [i \in 1..Len(cbs) |-> [cb |-> PopAll(cbs)[i], val |-> identity]]

\* A waiter registers an on_identified callback with the client.
OnIdentified ==
    /\ Inputs < MaxInputs
    /\ on_identified_callbacks' =
          Append(on_identified_callbacks,
                 Len(identified) + Len(on_identified_callbacks) + 1)
    /\ last' = [op |-> "OnIdentified", res |-> "none"]
    /\ UNCHANGED <<state, write_buffer, write_buffer_bytes_total,
                   pendingConnects, loops, peer, accepted, faults, sinkErr,
                   identified, on_handshake_ack_callbacks, fulfilled,
                   handshakes, hsFrames, acks, unacked, conn, streak,
                   panicked>>

\* Handler<Connect>::handle. how: what RemoteClient::connect met ("ok", a
\* failed dial, or no identity from the peer). oks: the entries the sink takes
\* during the flush. last.from notes the state the handler found.
HandleConnect(how, oks) ==
    /\ pendingConnects > 0
    /\ UNCHANGED <<accepted, on_handshake_ack_callbacks, fulfilled, handshakes,
                   hsFrames, acks, panicked>>
    \* the peer acknowledges a Handshake frame on the connection it came by
    /\ unacked' = IF how = "ok" THEN 0 ELSE unacked
    /\ on_identified_callbacks' = <<>>
    /\ identified' = identified \o
          ResolveIdentified(on_identified_callbacks,
                            IF how = "ok" THEN "Some" ELSE "None")
    /\ conn' = IF how = "ok" THEN conn + 1 ELSE conn
    /\ streak' = IF how # "ok" /\ streak >= 0 THEN streak + 1 ELSE -1
    /\ IF how = "ok"
       THEN /\ oks \in 0..Len(write_buffer)
            /\ oks < Len(write_buffer) => faults < MaxFaults
            /\ faults' = IF oks < Len(write_buffer) THEN faults + 1 ELSE faults
            /\ state' = Connected
            /\ loops' = loops + 1
            /\ pendingConnects' = pendingConnects - 1
            /\ LET f == flush_buffered_writes(Connected, write_buffer,
                                              write_buffer_bytes_total, oks)
               IN /\ write_buffer' = f.write_buffer
                  /\ write_buffer_bytes_total' = f.write_buffer_bytes_total
                  /\ Receive(f.out)
                  /\ last' = [op |-> "Connect",
                              res |-> IF oks < Len(write_buffer)
                                      THEN "flush_failed" ELSE "flushed",
                              from |-> state.kind]
       ELSE /\ oks = 0
            /\ faults < MaxFaults
            /\ faults' = faults + 1
            \* the receive loop is spawned before the identity is awaited
            /\ loops' = IF how = "no_identity" THEN loops + 1 ELSE loops
            \* self.handle(Disconnected, ctx).await: a new reconnect task
            /\ state' = DisconnectedState(state)
            /\ pendingConnects' = pendingConnects - 1 + 1
            /\ last' = [op |-> "Connect", res |-> how, from |-> state.kind]
            /\ UNCHANGED <<write_buffer, write_buffer_bytes_total, peer, sinkErr>>

\* Handler<Disconnected>::handle of a Disconnected sent by a receive loop
\* whose connection was closed.
HandleDisconnected ==
    /\ loops > 0
    /\ faults < MaxFaults
    /\ faults' = faults + 1
    /\ loops' = loops - 1
    /\ state' = DisconnectedState(state)
    /\ pendingConnects' = pendingConnects + 1
    /\ last' = [op |-> "Disconnected", res |-> "none"]
    /\ streak' = -1
    /\ UNCHANGED <<write_buffer, write_buffer_bytes_total, peer, accepted, sinkErr,
                   cbVars, conn, panicked>>

\* Handler<BeginHandshake>::handle of the BeginHandshake of the next caller.
\* sinkOk: the sink took the Handshake frame.
HandleBeginHandshake(sinkOk) ==
    /\ Inputs < MaxInputs
    /\ handshakes' = handshakes + 1
    /\ UNCHANGED <<state, write_buffer, write_buffer_bytes_total,
                   pendingConnects, loops, peer, accepted, sinkErr,
                   on_identified_callbacks, identified, fulfilled, acks, conn,
                   streak>>
    /\ IF state.kind # "Connected"
       THEN \* _ => return: the callback is dropped with the message
            /\ last' = [op |-> "BeginHandshake", res |-> "ignored"]
            /\ UNCHANGED <<on_handshake_ack_callbacks, hsFrames, unacked, faults,
                           panicked>>
       ELSE IF sinkOk
            THEN /\ hsFrames' = hsFrames + 1
                 /\ unacked' = unacked + 1
                 /\ on_handshake_ack_callbacks' =
                       Append(on_handshake_ack_callbacks,
                              [c |-> handshakes + 1, conn |-> conn])
                 /\ last' = [op |-> "BeginHandshake", res |-> "queued"]
                 /\ UNCHANGED <<faults, panicked>>
            ELSE \* write_bytes(..).await.expect("write handshake")
                 /\ faults < MaxFaults
                 /\ faults' = faults + 1
                 /\ panicked' = TRUE
                 /\ last' = [op |-> "BeginHandshake", res |-> "panic"]
                 /\ UNCHANGED <<on_handshake_ack_callbacks, hsFrames, unacked>>

\* A HandshakeAcknowledge that is discarded whatever the state.
AcknowledgedStateDiscarded(s, ack) == s

\* state.handshake = HandshakeStatus::Acknowledged(message)
AcknowledgedState(s, ack) == [s EXCEPT !.handshake = Acknowledged(ack)]

\* while let Some(callback) = self.on_handshake_ack_callbacks.pop()
\*     { callback.send(()) }
FulfilAll(cbs, at) ==
    [i \in 1..Len(cbs) |->
        [c |-> PopAll(cbs)[i].c, conn |-> PopAll(cbs)[i].conn, at |-> at]]

\* Handler<HandshakeAcknowledge>::handle of an acknowledgement that a receive
\* loop decoded: the peer sends one for a Handshake frame it received.
HandleHandshakeAcknowledge ==
    /\ loops > 0
    /\ unacked > 0
    /\ unacked' = unacked - 1
    /\ acks' = acks + 1
    /\ UNCHANGED <<write_buffer, write_buffer_bytes_total, pendingConnects,
                   loops, peer, accepted, faults, sinkErr,
                   on_identified_callbacks, identified, handshakes, hsFrames,
                   conn, streak, panicked>>
    /\ IF state.kind = "Connected"
       THEN /\ state' = AcknowledgedState(state, acks + 1)
            /\ fulfilled' = fulfilled \o FulfilAll(on_handshake_ack_callbacks, conn)
            /\ on_handshake_ack_callbacks' = <<>>
            /\ last' = [op |-> "HandshakeAcknowledge", res |-> "acknowledged"]
       ELSE /\ last' = [op |-> "HandshakeAcknowledge", res |-> "discarded"]
            /\ UNCHANGED <<state, on_handshake_ack_callbacks, fulfilled>>

ClientOnly == UNCHANGED <<loopVars, proxyVars>>

WriteStep ==
    \E p \in Payloads : \E enc, sinkOk \in BOOLEAN : HandleWrite(p, enc, sinkOk)

ConnectStep ==
    \E how \in {"ok", "dial_failed", "no_identity"} :
        \E oks \in 0..MaxWrites : HandleConnect(how, oks)

BeginHandshakeStep == \E sinkOk \in BOOLEAN : HandleBeginHandshake(sinkOk)

\* A handler that panics ends the client actor: nothing is handled after it.
Alive == ~panicked

ClientNext ==
    \/ Alive /\ WriteStep /\ ClientOnly
    \/ Alive /\ ConnectStep /\ ClientOnly
    \/ Alive /\ HandleDisconnected /\ ClientOnly
    \/ Alive /\ OnIdentified /\ ClientOnly
    \/ Alive /\ BeginHandshakeStep /\ ClientOnly
    \/ Alive /\ HandleHandshakeAcknowledge /\ ClientOnly

\* ---- properties of the remote client

RECURSIVE SumLen(_)
SumLen(buf) == IF buf = <<>> THEN 0 ELSE Head(buf).len + SumLen(Tail(buf))

InSeq(x, q) == \E i \in 1..Len(q) : q[i] = x

\* C5: the peer never receives a payload before one that Write accepted
\* earlier (payload ids count the accepted payloads in acceptance order).
C5_PeerOrder ==
    \A i, j \in 1..Len(peer) : i < j => peer[i] < peer[j]

\* C6: with the Connect messages handled fairly and the transport faults
\* ending, every payload Write accepted is received by the peer in the end
\* (a run that uses up its faults is left aside: the run that refutes this
\* ends its faults by itself).
C6_EventuallyReceived ==
    \A i \in 1..MaxWrites :
        InSeq(i, accepted) ~> (InSeq(i, peer) \/ faults = MaxFaults \/ panicked)

\* C7: between handlers the counter is the sum of the lengths of the
\* buffered entries (so the subtraction of the flush never goes below zero).
C7_BytesTotal ==
    write_buffer_bytes_total = SumLen(write_buffer)

\* A flush that wrote one entry and failed on the next, leaving entries
\* buffered.
C7_Witness ==
    /\ last.op = "Connect" /\ last.res = "flush_failed"
    /\ peer # <<>>
    /\ Len(write_buffer) >= 2
    /\ write_buffer_bytes_total >= 3

\* C10: after a Write whose send hit a sink error while Connected, the
\* payload is at the head of the write buffer and the state is Idle{1}; and
\* the first payload the peer receives after that is this payload.
C10_Original ==
    /\ (last.op = "Write" /\ last.res = "sink_error") =>
          /\ write_buffer # <<>>
          /\ Head(write_buffer).id = sinkErr.p
          /\ state = Idle(1)
    /\ sinkErr.first # 0 => sinkErr.first = sinkErr.p

\* A handler ran: every handler leaves its mark in a client variable, except
\* one that repeats an outcome that changes nothing.
Handled(op) == last'.op = op /\ clientVars' # clientVars

InBuffer(id, buf) == \E i \in 1..Len(buf) : buf[i].id = id

\* C11: a Write whose message serializes returns Ok (the payload joins the
\* accepted ones) in every state and whatever the sink does; afterwards the
\* payload was received by the peer or is in the write buffer; in Idle and
\* Quarantined it is appended to the tail of the buffer and the state stays.
C11_WriteOk ==
    [][(Handled("Write") /\ last'.bytes) =>
          /\ Len(accepted') = Len(accepted) + 1
          /\ LET id == accepted'[Len(accepted')]
             IN /\ accepted' = Append(accepted, id)
                /\ \/ peer' = Append(peer, id) /\ write_buffer' = write_buffer
                   \/ /\ peer' = peer
                      /\ Len(write_buffer') = Len(write_buffer) + 1
                      /\ write_buffer'[Len(write_buffer')].id = id
                      /\ SubSeq(write_buffer', 1, Len(write_buffer)) = write_buffer
                /\ state.kind \in {"Idle", "Quarantined"} =>
                      /\ InBuffer(id, write_buffer')
                      /\ peer' = peer
                      /\ state' = state
                      /\ pendingConnects' = pendingConnects]_vars

\* A Write in Quarantined was accepted and its payload joined the one that
\* was buffered.
C11_Witness ==
    /\ state.kind = "Quarantined"
    /\ last.op = "Write" /\ last.res = "buffered"
    /\ Len(write_buffer) = 2

\* C12: a Write whose message serializes to nothing returns Encoding (the
\* payload is not accepted) in every state, and leaves the state, the write
\* buffer, its byte counter, the scheduled reconnects and what the peer
\* received as they were.
C12_EncodingError ==
    [][(Handled("Write") /\ ~last'.bytes) =>
          /\ last'.res = "Encoding"
          /\ accepted' = accepted
          /\ UNCHANGED <<state, write_buffer, write_buffer_bytes_total,
                         pendingConnects, peer, loops>>]_vars

\* A Write that could not be serialized, handled while Connected with a
\* payload still buffered.
C12_Witness ==
    /\ last.op = "Write" /\ last.res = "Encoding"
    /\ state.kind = "Connected"
    /\ write_buffer # <<>>

\* C13: handling a Disconnected message takes Idle{n} to Idle{n+1},
\* Quarantined{since, n} to Quarantined{since, n+1} and Connected to Idle{1},
\* and leaves the write buffer alone; handled right after another
\* Disconnected it keeps the variant and adds one to connection_attempts.
C13_Disconnected ==
    [][Handled("Disconnected") =>
          /\ state.kind = "Idle" => state' = Idle(state.connection_attempts + 1)
          /\ state.kind = "Quarantined" =>
                state' = Quarantined(state.since, state.connection_attempts + 1)
          /\ state.kind = "Connected" => state' = Idle(1)
          /\ write_buffer' = write_buffer
          /\ write_buffer_bytes_total' = write_buffer_bytes_total
          /\ last.op = "Disconnected" =>
                /\ state'.kind = state.kind
                /\ state'.connection_attempts = state.connection_attempts + 1]_vars

\* Quarantined{1, 1} after two Disconnected in a row, a payload buffered.
C13_Witness ==
    /\ last.op = "Disconnected"
    /\ state = Quarantined(1, 3)
    /\ write_buffer # <<>>

\* How often the on_identified callback cb was sent val.
TimesIdentified(cb, val, sends) ==
    Cardinality({i \in 1..Len(sends) : sends[i] = [cb |-> cb, val |-> val]})

\* C14: a Connect that fails (the dial fails, or no identity arrives) sends
\* None to every pending on_identified callback and empties the list, leaves
\* a state other than Connected, takes Idle{n} to Idle{n+1} and schedules one
\* Connect for the one it used up; and while only failed Connects have
\* touched the state since creation, the k-th of them leaves Idle{k}.
C14_ConnectFails ==
    /\ [](streak >= 0 => state = Idle(streak))
    /\ [][(Handled("Connect") /\ last'.res \in {"dial_failed", "no_identity"}) =>
            /\ state.kind = "Idle" => state' = Idle(state.connection_attempts + 1)
            /\ state'.kind # "Connected"
            /\ conn' = conn
            /\ on_identified_callbacks' = <<>>
            /\ Len(identified') = Len(identified) + Len(on_identified_callbacks)
            /\ \A i \in 1..Len(on_identified_callbacks) :
                  /\ TimesIdentified(on_identified_callbacks[i], "None", identified') = 1
                  /\ TimesIdentified(on_identified_callbacks[i], "Some", identified') = 0
            /\ pendingConnects >= 1
            /\ pendingConnects' = pendingConnects]_vars

\* The second failed Connect in a row since creation, after which two
\* waiters have been sent None.
C14_Witness ==
    /\ last.op = "Connect" /\ last.res \in {"dial_failed", "no_identity"}
    /\ streak = 2
    /\ state = Idle(2)
    /\ Len(identified) = 2
    /\ \A i \in 1..2 : identified[i].val = "None"

\* How often the completion slot of the caller c was sent ().
TimesFulfilled(c, sends) ==
    Cardinality({i \in 1..Len(sends) : sends[i].c = c})

\* C15: once the BeginHandshake of two callers were both handled on one
\* connection that is still up, their Handshake frames written, and the one
\* HandshakeAcknowledge of the peer was handled, the slot of each caller was
\* fulfilled exactly once, in whatever order the three were handled; and no
\* slot is ever fulfilled twice.
C15_Original ==
    /\ \A c \in 1..MaxInputs : TimesFulfilled(c, fulfilled) <= 1
    /\ (/\ handshakes = 2 /\ hsFrames = 2 /\ acks = 1
        /\ state.kind = "Connected" /\ conn = 1 /\ faults = 0) =>
          \A c \in 1..2 : TimesFulfilled(c, fulfilled) = 1

\* C16: a HandshakeAcknowledge handled in Connected sets the handshake to
\* Acknowledged(ack), sends () once to every queued on_handshake_ack callback
\* and empties the list; handled in Idle or Quarantined it changes neither
\* the state nor the callbacks; and it never touches the write buffer.
C16_HandshakeAcknowledge ==
    [][Handled("HandshakeAcknowledge") =>
          /\ state.kind = "Connected" =>
                /\ state'.kind = "Connected"
                /\ state'.handshake = [status |-> "Acknowledged", ack |-> acks']
                /\ on_handshake_ack_callbacks' = <<>>
                /\ Len(fulfilled') = Len(fulfilled) + Len(on_handshake_ack_callbacks)
                /\ SubSeq(fulfilled', 1, Len(fulfilled)) = fulfilled
                /\ \A i \in 1..Len(on_handshake_ack_callbacks) :
                      TimesFulfilled(on_handshake_ack_callbacks[i].c, fulfilled')
                        = TimesFulfilled(on_handshake_ack_callbacks[i].c, fulfilled) + 1
          /\ state.kind \in {"Idle", "Quarantined"} =>
                /\ state' = state
                /\ on_handshake_ack_callbacks' = on_handshake_ack_callbacks
                /\ fulfilled' = fulfilled
          /\ write_buffer' = write_buffer
          /\ write_buffer_bytes_total' = write_buffer_bytes_total
          /\ pendingConnects' = pendingConnects]_vars

\* One HandshakeAcknowledge handled in Connected fulfilled the two callbacks
\* that were queued.
C16_Witness ==
    /\ last.op = "HandshakeAcknowledge" /\ last.res = "acknowledged"
    /\ Len(fulfilled) = 2
    /\ on_handshake_ack_callbacks = <<>>
    /\ state.handshake = Acknowledged(1)

\* C17: no handler of the client panics, whatever the messages and the
\* transport faults.
C17_NoPanic == ~panicked

IsPrefix(a, b) == Len(a) <= Len(b) /\ SubSeq(b, 1, Len(a)) = a

\* C19: a handler other than a successful Connect only ever appends to the
\* write buffer; the flush of a successful Connect sends the first k buffered
\* entries to the peer in buffer order and leaves the others as they were,
\* the entry it failed on first; it sends them all unless a send failed.
C19_FlushOnly ==
    [][/\ ~IsPrefix(write_buffer, write_buffer') =>
            /\ last'.op = "Connect" /\ last'.res \in {"flushed", "flush_failed"}
            /\ state'.kind = "Connected"
       /\ (Handled("Connect") /\ last'.res \in {"flushed", "flush_failed"}) =>
            \E k \in 0..Len(write_buffer) :
               /\ peer' = peer \o Ids(SubSeq(write_buffer, 1, k))
               /\ write_buffer' = SubSeq(write_buffer, k + 1, Len(write_buffer))
               /\ last'.res = "flushed" <=> k = Len(write_buffer)]_vars

\* A flush sent the first of three entries and failed on the second: the
\* second and the third are left, in that order.
C19_Witness ==
    /\ last.op = "Connect" /\ last.res = "flush_failed"
    /\ peer = <<1>>
    /\ Ids(write_buffer) = <<2, 3>>

\* C21: between handlers, a Connected client has an empty write buffer, so a
\* Write handled in Connected finds nothing older waiting to be sent.
C21_ConnectedEmpty ==
    state.kind = "Connected" => write_buffer = <<>>

\* C22: a Connect is never handled by a client that is Connected, and at
\* most one Connect is on its way (sent, or sleeping in a reconnect task) at
\* any time; stated for the runs the claim names, those in which the send of
\* a Write met a sink error.
C22_OneReconnect ==
    sinkErr.p # 0 =>
        /\ pendingConnects <= 1
        /\ last.op = "Connect" => last.from # "Connected"

\* C23: a completion callback is fulfilled only by a HandshakeAcknowledge
\* handled on the connection on which BeginHandshake queued it; and every
\* callback recorded stands for a Handshake frame that was written, a
\* BeginHandshake that found the client not Connected leaving neither.
C23_SameConnection ==
    /\ \A i \in 1..Len(fulfilled) : fulfilled[i].at = fulfilled[i].conn
    /\ hsFrames = Len(on_handshake_ack_callbacks) + Len(fulfilled)
    /\ (last.op = "BeginHandshake" /\ last.res = "queued") =>
           state.kind = "Connected"

\* ------------------------------------------------------------ whole model

Init == LoopInit /\ ProxyInit /\ ClientInit

LoopSpec == Init /\ [][LoopNext]_vars

\* The loop is a spawned task that the runtime keeps polling, and the hooks
\* and handlers it awaits return.
FairLoopSpec == LoopSpec /\ WF_vars(LoopStep /\ LoopOnly)

ProxySpec == Init /\ [][ProxyNext]_vars

ClientSpec == Init /\ [][ClientNext]_vars

\* The client's mailbox and its reconnect tasks are scheduled: a Connect on
\* its way is handled in the end.
FairClientSpec == ClientSpec /\ WF_vars(Alive /\ ConnectStep /\ ClientOnly)

\* The handlers of the client applied to a client in any of its states.
AnyInit == LoopInit /\ ProxyInit /\ AnyClientInit

HandlerSpec == AnyInit /\ [][ClientNext]_vars

Next == LoopNext \/ ProxyNext \/ ClientNext

Spec == Init /\ [][Next]_vars

====
